---------------------------- MODULE Spec2Model ----------------------------
(***************************************************************************)
(* A model of the BlackRoad Education assessment engine                    *)
(* (src/src/assessment.py): the attempt lifecycle (start_attempt,          *)
(* submit_answer, complete_attempt), the grading engine                    *)
(* (grade_attempt_dict) and the sqlite store they share.                   *)
(*                                                                         *)
(* Strings are tuples of one-character strings, so that strip(), lower(),  *)
(* split(",") and the substring test are computed, not assumed.            *)
(* Scores and passing scores are held in hundredths (50.0 is 5000), and    *)
(* time_taken_mins in hundredths of a minute; the clock counts seconds.    *)
(* A nullable column is <<>> (NULL) or <<v>>.                              *)
(***************************************************************************)
EXTENDS Integers, Sequences, FiniteSets, TLC

VARIABLES
    questions,         \* the questions table, in insertion order
    quizzes,           \* the quizzes table, in insertion order
    attempts,          \* the attempts table (committed rows); id = position
    question_results,  \* the question_results table (committed rows)
    clock,             \* the wall clock, in seconds
    pc,                \* per connection: the statement it is about to run
    local,             \* per connection: the call's arguments and locals
    pending,           \* per connection: its uncommitted writes
    ncalls,            \* per connection: the calls it has made
    lock               \* the connection holding sqlite's write lock, or NoOne

vars == <<questions, quizzes, attempts, question_results, clock,
          pc, local, pending, ncalls, lock>>

store == <<questions, quizzes, attempts, question_results>>

conns == <<pc, local, pending, ncalls, lock>>

-----------------------------------------------------------------------------
(* Bounds of the model *)

\* rows the attempts table may hold
MaxRows == 2

\* seconds the clock may reach
MaxClock == 1

\* points of the question worth more than one point
MaxPoints == 2

\* calls each concurrent caller may make
MaxCalls == 3

-----------------------------------------------------------------------------
(* Values *)

Null == <<>>

Some(v) == <<v>>

IsNull(x) == x = <<>>

Val(x) == x[1]

Range(s) == {s[i] : i \in 1..Len(s)}

RECURSIVE SumSeq(_)
SumSeq(s) == IF s = <<>> THEN 0 ELSE Head(s) + SumSeq(Tail(s))

\* int(passed): the bool as sqlite stores it
BoolToInt(b) == IF b THEN 1 ELSE 0

-----------------------------------------------------------------------------
(* Python string methods used by the grader *)

IsSpace(c) == c \in {" ", "\t", "\n"}

LowerChar(c) ==
    CASE c = "A" -> "a"
      [] c = "B" -> "b"
      [] c = "C" -> "c"
      [] c = "E" -> "e"
      [] c = "F" -> "f"
      [] c = "L" -> "l"
      [] c = "P" -> "p"
      [] c = "R" -> "r"
      [] c = "S" -> "s"
      [] c = "T" -> "t"
      [] c = "U" -> "u"
      [] OTHER -> c

\* str.lower()
Lower(s) == [i \in 1..Len(s) |-> LowerChar(s[i])]

RECURSIVE LStrip(_)
LStrip(s) == IF s # <<>> /\ IsSpace(Head(s)) THEN LStrip(Tail(s)) ELSE s

RECURSIVE RStrip(_)
RStrip(s) ==
    IF s # <<>> /\ IsSpace(s[Len(s)]) THEN RStrip(SubSeq(s, 1, Len(s) - 1)) ELSE s

\* str.strip()
Strip(s) == RStrip(LStrip(s))

\* str.split(sep) for a one-character separator
RECURSIVE Split(_, _)
Split(s, sep) ==
    IF \A i \in 1..Len(s) : s[i] # sep
    THEN <<s>>
    ELSE LET i == CHOOSE k \in 1..Len(s) :
                      s[k] = sep /\ \A j \in 1..(k - 1) : s[j] # sep
         IN  <<SubSeq(s, 1, i - 1)>> \o Split(SubSeq(s, i + 1, Len(s)), sep)

\* a faulty token set that does not trim the tokens
TokenSet_NoTrim(s) == Range(Split(s, ",")) \ {<<>>}

\* set(a.strip() for a in s.split(",") if a.strip())
TokenSet(s) == {Strip(t) : t \in Range(Split(s, ","))} \ {<<>>}

\* a faulty containment that only accepts sub at the start of s
Contains_Prefix(sub, s) ==
    Len(sub) <= Len(s) /\ SubSeq(s, 1, Len(sub)) = sub

\* sub in s
Contains(sub, s) ==
    \E i \in 0..(Len(s) - Len(sub)) : SubSeq(s, i + 1, i + Len(sub)) = sub

\* answers.get(q.id, "").strip().lower()  and  q.correct_answer.strip().lower()
Normalize(s) == Lower(Strip(s))

-----------------------------------------------------------------------------
(* Numbers *)

\* round(n / d, 0) for d > 0: to the nearest integer, ties to even (\div
\* rounds down and % is never negative, so this holds for negative n too)
RoundHalfEven(n, d) ==
    LET q == n \div d
        r == n % d
    IN  IF 2 * r < d THEN q
        ELSE IF 2 * r > d THEN q + 1
        ELSE IF q % 2 = 0 THEN q ELSE q + 1

\* a faulty score that truncates to two decimals instead of rounding
Score_Truncated(earned_points, total_points) ==
    IF total_points > 0 THEN (earned_points * 10000) \div total_points ELSE 0

\* a faulty score without the guard on the total: a total of 0 divides as 1
Score_NoZeroGuard(earned_points, total_points) ==
    IF total_points >= 0
    THEN RoundHalfEven(earned_points * 10000,
                       IF total_points = 0 THEN 1 ELSE total_points)
    ELSE 0

\* round(earned_points / total_points * 100, 2) if total_points > 0 else 0.0,
\* in hundredths
Score(earned_points, total_points) ==
    IF total_points > 0
    THEN RoundHalfEven(earned_points * 10000, total_points)
    ELSE 0

\* round((now - started).total_seconds() / 60, 2), in hundredths of a minute
TimeTaken(started, now) == RoundHalfEven((now - started) * 100, 60)

-----------------------------------------------------------------------------
(* The store: reads *)

\* get_question: the row with this id, or None
get_question(question_id) ==
    IF \E i \in 1..Len(questions) : questions[i].id = question_id
    THEN Some(questions[CHOOSE i \in 1..Len(questions) :
                            questions[i].id = question_id])
    ELSE Null

\* get_quiz: the row with this id, or None
get_quiz(quiz_id) ==
    IF \E i \in 1..Len(quizzes) : quizzes[i].id = quiz_id
    THEN Some(quizzes[CHOOSE i \in 1..Len(quizzes) : quizzes[i].id = quiz_id])
    ELSE Null

\* the loop of get_quiz_questions: the questions found, in quiz order
RECURSIVE FoundQuestions(_)
FoundQuestions(question_ids) ==
    IF question_ids = <<>> THEN <<>>
    ELSE LET q == get_question(Head(question_ids))
         IN  (IF IsNull(q) THEN <<>> ELSE <<Val(q)>>)
                 \o FoundQuestions(Tail(question_ids))

get_quiz_questions(quiz_id) ==
    LET quiz == get_quiz(quiz_id)
    IN  IF IsNull(quiz) THEN <<>> ELSE FoundQuestions(Val(quiz).question_ids)

\* a faulty lookup that falls back to the last row for an unknown id
AttemptRow_Fallback(table, attempt_id) ==
    IF table = <<>> THEN Null
    ELSE IF attempt_id \in 1..Len(table) THEN Some(table[attempt_id])
    ELSE Some(table[Len(table)])

\* SELECT * FROM attempts WHERE id=?  on a given table
AttemptRow(table, attempt_id) ==
    IF attempt_id \in 1..Len(table) THEN Some(table[attempt_id]) ELSE Null

\* a faulty count that takes the attempts of every student on the quiz
CountAttempts_AnyStudent(table, quiz_id, student_id) ==
    Cardinality({i \in 1..Len(table) : table[i].quiz_id = quiz_id})

\* SELECT COUNT(*) FROM attempts WHERE quiz_id=? AND student_id=?
CountAttempts(table, quiz_id, student_id) ==
    Cardinality({i \in 1..Len(table) :
                    table[i].quiz_id = quiz_id /\ table[i].student_id = student_id})

\* the question_results rows of one attempt, in insertion order
RECURSIVE ResultsOf(_, _)
ResultsOf(table, attempt_id) ==
    IF table = <<>> THEN <<>>
    ELSE (IF Head(table).attempt_id = attempt_id THEN <<Head(table)>> ELSE <<>>)
             \o ResultsOf(Tail(table), attempt_id)

-----------------------------------------------------------------------------
(* The grading engine *)

\* answers.get(q.id, "")
AnswerOf(answers, question_id) ==
    IF question_id \in DOMAIN answers THEN answers[question_id] ELSE <<>>

\* the per-type comparison of grade_attempt_dict
IsCorrect(type, student_answer, correct) ==
    IF type \in {"multiple_choice", "true_false"}
    THEN student_answer = correct
    ELSE IF type = "multi_select"
    THEN TokenSet(student_answer) = TokenSet(correct)
    ELSE IF type = "short_answer"
    THEN Contains(correct, student_answer) \/ student_answer = correct
    ELSE FALSE

\* one iteration of the grading loop: the entry appended to results
GradeQuestion(q, answers) ==
    LET student_answer == Normalize(AnswerOf(answers, q.id))
        correct == Normalize(q.correct_answer)
        is_correct == IsCorrect(q.type, student_answer, correct)
    IN  [question_id |-> q.id,
         student_answer |-> student_answer,
         correct_answer |-> q.correct_answer,
         is_correct |-> is_correct,
         points_earned |-> IF is_correct THEN q.points ELSE 0,
         points_possible |-> q.points]

\* a faulty grader whose score depends on what the store already holds
grade_attempt_dict_Stateful(answers, quiz_id) ==
    LET qs == get_quiz_questions(quiz_id)
        results == [i \in 1..Len(qs) |-> GradeQuestion(qs[i], answers)]
        total_points == SumSeq([i \in 1..Len(qs) |-> qs[i].points])
        earned_points == SumSeq([i \in 1..Len(qs) |-> results[i].points_earned])
        correct_count == Cardinality({i \in 1..Len(qs) : results[i].is_correct})
    IN  [score |-> IF question_results = <<>>
                   THEN Score(earned_points, total_points) ELSE 0,
         correct |-> correct_count,
         total |-> Len(qs),
         earned_points |-> earned_points,
         total_points |-> total_points,
         results |-> results]

grade_attempt_dict(answers, quiz_id) ==
    LET qs == get_quiz_questions(quiz_id)
        results == [i \in 1..Len(qs) |-> GradeQuestion(qs[i], answers)]
        total_points == SumSeq([i \in 1..Len(qs) |-> qs[i].points])
        earned_points == SumSeq([i \in 1..Len(qs) |-> results[i].points_earned])
        correct_count == Cardinality({i \in 1..Len(qs) : results[i].is_correct})
    IN  [score |-> Score(earned_points, total_points),
         correct |-> correct_count,
         total |-> Len(qs),
         earned_points |-> earned_points,
         total_points |-> total_points,
         results |-> results]

-----------------------------------------------------------------------------
(* The store: writes *)

\* a faulty new attempt that starts with a score of 0.0
NewAttempt_Scored(id, quiz_id, student_id, now) ==
    [id |-> id, quiz_id |-> quiz_id, student_id |-> student_id,
     answers |-> <<>>, score |-> Some(0), started_at |-> now,
     completed_at |-> Null, time_taken_mins |-> Null, passed |-> Null]

\* Attempt(id=_uid(), quiz_id, student_id, answers={}, score=None)
NewAttempt(id, quiz_id, student_id, now) ==
    [id |-> id, quiz_id |-> quiz_id, student_id |-> student_id,
     answers |-> <<>>, score |-> Null, started_at |-> now,
     completed_at |-> Null, time_taken_mins |-> Null, passed |-> Null]

\* a faulty assignment that keeps an answer already stored (first write wins)
PutAnswer_KeepFirst(answers, question_id, answer) ==
    [k \in DOMAIN answers \cup {question_id} |->
        IF k \in DOMAIN answers THEN answers[k] ELSE answer]

\* answers[question_id] = answer
PutAnswer(answers, question_id, answer) ==
    [k \in DOMAIN answers \cup {question_id} |->
        IF k = question_id THEN answer ELSE answers[k]]

\* UPDATE attempts SET answers=? WHERE id=?
UpdateAnswers(table, attempt_id, answers) ==
    [i \in 1..Len(table) |->
        IF i = attempt_id THEN [table[i] EXCEPT !.answers = answers] ELSE table[i]]

\* a faulty pass test: > for >=
Passed_Strict(score, quiz) ==
    IF IsNull(quiz) THEN FALSE ELSE score > Val(quiz).passing_score

\* score >= quiz.passing_score if quiz else False
Passed(score, quiz) == IF IsNull(quiz) THEN FALSE ELSE score >= Val(quiz).passing_score

\* a faulty UPDATE that leaves the passed column out
UpdateCompleted_NoPassed(table, attempt_id, completed_at, score, time_taken, passed) ==
    [i \in 1..Len(table) |->
        IF i = attempt_id
        THEN [table[i] EXCEPT !.completed_at = Some(completed_at),
                              !.score = Some(score),
                              !.time_taken_mins = Some(time_taken)]
        ELSE table[i]]

\* UPDATE attempts SET completed_at=?, score=?, time_taken_mins=?, passed=? WHERE id=?
UpdateCompleted(table, attempt_id, completed_at, score, time_taken, passed) ==
    [i \in 1..Len(table) |->
        IF i = attempt_id
        THEN [table[i] EXCEPT !.completed_at = Some(completed_at),
                              !.score = Some(score),
                              !.time_taken_mins = Some(time_taken),
                              !.passed = Some(BoolToInt(passed))]
        ELSE table[i]]

\* the row INSERT OR REPLACE INTO question_results writes for one result; its
\* primary key is a fresh uuid, so it never replaces a row
ResultRow(attempt_id, qr) ==
    [attempt_id |-> attempt_id,
     question_id |-> qr.question_id,
     student_answer |-> qr.student_answer,
     is_correct |-> BoolToInt(qr.is_correct),
     points_earned |-> qr.points_earned,
     points_possible |-> qr.points_possible]

\* the loop storing the per-question results
ResultRows(attempt_id, results) ==
    [i \in 1..Len(results) |-> ResultRow(attempt_id, results[i])]

-----------------------------------------------------------------------------
(* The inputs the model draws from *)

Students == {"s1", "s2"}

\* "z9" names no quiz
QuizIds == {"z1", "z2", "z9"}

TRUE_STR == <<"t", "r", "u", "e">>

\* the (question_id, answer) pairs submit_answer is called with: for each
\* question an answer that grades correct only after strip() and lower(),
\* and for q2 one that grades wrong; q1 is not a question of quiz z2, nor
\* q3 one of quiz z1
SubmitInputs ==
    { <<"q1", <<" ", "B">> >>,
      <<"q2", <<"T", "r", "u", "e", " ">> >>, <<"q2", <<"f">> >>,
      <<"q3", <<"c", ",", " ", "A">> >> }

\* the questions table: the two questions of the test suite's quiz and a
\* third with p points
QuestionStore(p) ==
    << [id |-> "q1", type |-> "multiple_choice", correct_answer |-> <<"b">>,
        difficulty |-> "easy", tags |-> {"math"}, points |-> 1],
       [id |-> "q2", type |-> "true_false", correct_answer |-> TRUE_STR,
        difficulty |-> "easy", tags |-> {"general"}, points |-> 1],
       [id |-> "q3", type |-> "multi_select", correct_answer |-> <<"a", ",", "c">>,
        difficulty |-> "medium", tags |-> {"math"}, points |-> p] >>

\* the quizzes table: z1 is the test suite's quiz (passing_score 50.0) with
\* m attempts allowed; z2 names q9, which is not in the questions table
QuizStore(m) ==
    << [id |-> "z1", question_ids |-> <<"q1", "q2">>, time_limit_mins |-> 30,
        passing_score |-> 5000, max_attempts |-> m],
       [id |-> "z2", question_ids |-> <<"q2", "q3", "q9">>, time_limit_mins |-> 10,
        passing_score |-> 7000, max_attempts |-> 1] >>

Conns == {"c1", "c2"}

NoOne == "none"

NoCall == [op |-> "none"]

-----------------------------------------------------------------------------
(* The sequential program: each call runs to completion *)

Init ==
    /\ questions = QuestionStore(MaxPoints)
    /\ quizzes = QuizStore(2)
    /\ attempts = <<>>
    /\ question_results = <<>>
    /\ clock = 0
    /\ pc = [c \in Conns |-> "idle"]
    /\ local = [c \in Conns |-> NoCall]
    /\ pending = [c \in Conns |-> <<>>]
    /\ ncalls = [c \in Conns |-> 0]
    /\ lock = NoOne

\* an error result {"error": msg}; the two formatted messages are kept
\* without the quiz id and the limit that the code interpolates
Error(msg) == [error |-> msg]

IsError(value) == "error" \in DOMAIN value

\* time passes
Tick ==
    /\ clock < MaxClock
    /\ clock' = clock + 1
    /\ UNCHANGED <<store, conns>>

\* a faulty start_attempt whose limit check is off by one (> for >=)
StartOutcome_OffByOne(table, quiz_id, student_id, now) ==
    LET quiz == get_quiz(quiz_id)
    IN  IF IsNull(quiz)
        THEN [table |-> table, value |-> Error("Quiz not found")]
        ELSE IF CountAttempts(table, quiz_id, student_id) > Val(quiz).max_attempts
        THEN [table |-> table, value |-> Error("Max attempts reached")]
        ELSE LET attempt == NewAttempt(Len(table) + 1, quiz_id, student_id, now)
             IN  [table |-> Append(table, attempt), value |-> attempt]

\* what start_attempt does to the attempts table and what it returns
StartOutcome(table, quiz_id, student_id, now) ==
    LET quiz == get_quiz(quiz_id)
    IN  IF IsNull(quiz)
        THEN [table |-> table, value |-> Error("Quiz not found")]
        ELSE IF CountAttempts(table, quiz_id, student_id) >= Val(quiz).max_attempts
        THEN [table |-> table, value |-> Error("Max attempts reached")]
        ELSE LET attempt == NewAttempt(Len(table) + 1, quiz_id, student_id, now)
             IN  [table |-> Append(table, attempt), value |-> attempt]

StartAttempt(quiz_id, student_id) ==
    LET out == StartOutcome(attempts, quiz_id, student_id, clock)
    IN  /\ Len(out.table) <= MaxRows
        /\ attempts' = out.table
        /\ UNCHANGED <<questions, quizzes, question_results, clock, conns>>

\* a faulty submit_answer without the completed_at check
SubmitOutcome_NoCheck(table, attempt_id, question_id, answer) ==
    LET row == AttemptRow(table, attempt_id)
    IN  IF IsNull(row)
        THEN [table |-> table, value |-> Error("Attempt not found")]
        ELSE [table |-> UpdateAnswers(table, attempt_id,
                            PutAnswer(Val(row).answers, question_id, answer)),
              value |-> [attempt_id |-> attempt_id, question_id |-> question_id,
                         answer |-> answer, saved |-> TRUE]]

\* what submit_answer does to the attempts table and what it returns
SubmitOutcome(table, attempt_id, question_id, answer) ==
    LET row == AttemptRow(table, attempt_id)
    IN  IF IsNull(row)
        THEN [table |-> table, value |-> Error("Attempt not found")]
        ELSE IF ~IsNull(Val(row).completed_at)
        THEN [table |-> table, value |-> Error("Attempt already completed")]
        ELSE [table |-> UpdateAnswers(table, attempt_id,
                            PutAnswer(Val(row).answers, question_id, answer)),
              value |-> [attempt_id |-> attempt_id, question_id |-> question_id,
                         answer |-> answer, saved |-> TRUE]]

SubmitAnswer(attempt_id, question_id, answer) ==
    LET out == SubmitOutcome(attempts, attempt_id, question_id, answer)
    IN  /\ attempts' = out.table
        /\ UNCHANGED <<questions, quizzes, question_results, clock, conns>>

\* a faulty complete_attempt that refuses an attempt without answers
CompleteOutcome_NeedsAnswers(table, results_table, attempt_id, now) ==
    LET row == AttemptRow(table, attempt_id)
    IN  IF IsNull(row)
        THEN [table |-> table, results_table |-> results_table,
              value |-> Error("Attempt not found")]
        ELSE IF ~IsNull(Val(row).completed_at)
        THEN [table |-> table, results_table |-> results_table,
              value |-> Error("Attempt already completed")]
        ELSE IF Val(row).answers = <<>>
        THEN [table |-> table, results_table |-> results_table,
              value |-> Error("No answers")]
        ELSE LET attempt_data == Val(row)
                 time_taken == TimeTaken(attempt_data.started_at, now)
                 grade_result == grade_attempt_dict(attempt_data.answers,
                                                    attempt_data.quiz_id)
                 score == grade_result.score
                 passed == Passed(score, get_quiz(attempt_data.quiz_id))
             IN  [table |-> UpdateCompleted(table, attempt_id, now, score,
                                            time_taken, passed),
                  results_table |->
                      results_table \o ResultRows(attempt_id, grade_result.results),
                  value |-> [attempt_id |-> attempt_id, score |-> score,
                             passed |-> passed, time_taken_mins |-> time_taken,
                             correct |-> grade_result.correct,
                             total |-> grade_result.total,
                             results |-> grade_result.results]]

\* what complete_attempt does to the two tables and what it returns
CompleteOutcome(table, results_table, attempt_id, now) ==
    LET row == AttemptRow(table, attempt_id)
    IN  IF IsNull(row)
        THEN [table |-> table, results_table |-> results_table,
              value |-> Error("Attempt not found")]
        ELSE IF ~IsNull(Val(row).completed_at)
        THEN [table |-> table, results_table |-> results_table,
              value |-> Error("Attempt already completed")]
        ELSE LET attempt_data == Val(row)
                 time_taken == TimeTaken(attempt_data.started_at, now)
                 grade_result == grade_attempt_dict(attempt_data.answers,
                                                    attempt_data.quiz_id)
                 score == grade_result.score
                 passed == Passed(score, get_quiz(attempt_data.quiz_id))
             IN  [table |-> UpdateCompleted(table, attempt_id, now, score,
                                            time_taken, passed),
                  results_table |->
                      results_table \o ResultRows(attempt_id, grade_result.results),
                  value |-> [attempt_id |-> attempt_id, score |-> score,
                             passed |-> passed, time_taken_mins |-> time_taken,
                             correct |-> grade_result.correct,
                             total |-> grade_result.total,
                             results |-> grade_result.results]]

CompleteAttempt(attempt_id) ==
    LET out == CompleteOutcome(attempts, question_results, attempt_id, clock)
    IN  /\ attempts' = out.table
        /\ question_results' = out.results_table
        /\ UNCHANGED <<questions, quizzes, clock, conns>>

Next ==
    \/ Tick
    \/ \E quiz_id \in QuizIds, student_id \in Students :
           StartAttempt(quiz_id, student_id)
    \/ \E attempt_id \in 1..(MaxRows + 1), input \in SubmitInputs :
           SubmitAnswer(attempt_id, input[1], input[2])
    \/ \E attempt_id \in 1..(MaxRows + 1) : CompleteAttempt(attempt_id)

Spec == Init /\ [][Next]_vars

-----------------------------------------------------------------------------
(* The concurrent program: callers on separate sqlite connections.         *)
(*                                                                         *)
(* Each call opens its own connection (_conn) with Python's default        *)
(* transaction control: a SELECT runs outside any transaction and sees the *)
(* committed rows; the first INSERT or UPDATE begins a transaction and     *)
(* takes the database's single write lock, waiting while another           *)
(* connection holds it; the writes stay private to the connection until    *)
(* the with block commits them on exit, or rolls them back if the body     *)
(* raised.  A step is one statement.  The questions and quizzes tables are *)
(* not written by these calls, so the reads of them are folded into the    *)
(* step that reads the attempts table; a call's first step is its first    *)
(* statement, and its last step returns its value to the caller.  The      *)
(* clock stands still here: what the callers do to each other does not     *)
(* depend on it.                                                           *)
(***************************************************************************)

\* the inputs of the concurrent callers
ConcQuizIds == {"z2"}

ConcStudents == {"s1"}

ConcSubmitInputs ==
    { <<"q2", <<"T", "r", "u", "e", " ">> >>, <<"q3", <<"c", ",", " ", "A">> >> }

\* commit: the connection's writes applied, in order, to the attempts table
RECURSIVE ApplyAttempts(_, _)
ApplyAttempts(table, writes) ==
    IF writes = <<>> THEN table
    ELSE LET w == Head(writes)
             next == CASE w.kind = "insert_attempt" -> Append(table, w.row)
                       [] w.kind = "update_answers" ->
                              UpdateAnswers(table, w.attempt_id, w.answers)
                       [] w.kind = "update_completed" ->
                              UpdateCompleted(table, w.attempt_id, w.completed_at,
                                              w.score, w.time_taken, w.passed)
                       [] OTHER -> table
         IN  ApplyAttempts(next, Tail(writes))

\* commit: the connection's writes applied to the question_results table
RECURSIVE ApplyResults(_, _)
ApplyResults(table, writes) ==
    IF writes = <<>> THEN table
    ELSE ApplyResults(IF Head(writes).kind = "insert_result"
                      THEN Append(table, Head(writes).row) ELSE table,
                      Tail(writes))

\* the caller's bookkeeping when a call begins
Enter(c) ==
    /\ pc[c] = "idle"
    /\ ncalls[c] < MaxCalls
    /\ ncalls' = [ncalls EXCEPT ![c] = @ + 1]

\* start_attempt, up to its checks: get_quiz and SELECT COUNT(*)
StartRead(c, quiz_id, student_id) ==
    /\ Enter(c)
    /\ LET quiz == get_quiz(quiz_id)
       IN  IF \/ IsNull(quiz)
              \/ CountAttempts(attempts, quiz_id, student_id) >= Val(quiz).max_attempts
           THEN \* return {"error": ...}
                UNCHANGED <<pc, local>>
           ELSE /\ pc' = [pc EXCEPT ![c] = "start_insert"]
                /\ local' = [local EXCEPT ![c] =
                                [op |-> "start_attempt", quiz_id |-> quiz_id,
                                 student_id |-> student_id]]
    /\ UNCHANGED <<store, clock, pending, lock>>

\* Attempt(...) and INSERT INTO attempts: begins the transaction
StartInsert(c) ==
    /\ pc[c] = "start_insert"
    /\ lock = NoOne
    /\ Len(attempts) < MaxRows
    /\ pending' = [pending EXCEPT ![c] =
                      <<[kind |-> "insert_attempt",
                         row |-> NewAttempt(Len(attempts) + 1, local[c].quiz_id,
                                            local[c].student_id, clock)]>>]
    /\ lock' = c
    /\ pc' = [pc EXCEPT ![c] = "commit"]
    /\ UNCHANGED <<store, clock, local, ncalls>>

\* submit_answer, up to its checks: SELECT completed_at, answers FROM attempts
SubmitRead(c, attempt_id, question_id, answer) ==
    /\ Enter(c)
    /\ LET row == AttemptRow(attempts, attempt_id)
       IN  IF IsNull(row) \/ ~IsNull(Val(row).completed_at)
           THEN \* return {"error": ...}
                UNCHANGED <<pc, local>>
           ELSE /\ pc' = [pc EXCEPT ![c] = "submit_update"]
                /\ local' = [local EXCEPT ![c] =
                                [op |-> "submit_answer", attempt_id |-> attempt_id,
                                 answers |-> PutAnswer(Val(row).answers,
                                                       question_id, answer)]]
    /\ UNCHANGED <<store, clock, pending, lock>>

\* UPDATE attempts SET answers=?: begins the transaction
SubmitUpdate(c) ==
    /\ pc[c] = "submit_update"
    /\ lock = NoOne
    /\ pending' = [pending EXCEPT ![c] =
                      <<[kind |-> "update_answers", attempt_id |-> local[c].attempt_id,
                         answers |-> local[c].answers]>>]
    /\ lock' = c
    /\ pc' = [pc EXCEPT ![c] = "commit"]
    /\ UNCHANGED <<store, clock, local, ncalls>>

\* complete_attempt, up to the grading: SELECT * FROM attempts, the checks,
\* now_dt, grade_attempt_dict and get_quiz
CompleteRead(c, attempt_id) ==
    /\ Enter(c)
    /\ LET row == AttemptRow(attempts, attempt_id)
       IN  IF IsNull(row) \/ ~IsNull(Val(row).completed_at)
           THEN \* return {"error": ...}
                UNCHANGED <<pc, local>>
           ELSE LET attempt_data == Val(row)
                    grade_result == grade_attempt_dict(attempt_data.answers,
                                                       attempt_data.quiz_id)
                IN  /\ pc' = [pc EXCEPT ![c] = "complete_update"]
                    /\ local' = [local EXCEPT ![c] =
                          [op |-> "complete_attempt",
                           attempt_id |-> attempt_id,
                           time_taken |-> TimeTaken(attempt_data.started_at, clock),
                           grade_result |-> grade_result,
                           passed |-> Passed(grade_result.score,
                                             get_quiz(attempt_data.quiz_id))]]
    /\ UNCHANGED <<store, clock, pending, lock>>

\* a faulty complete_attempt on an autocommit connection: the UPDATE is
\* committed as soon as it has run
CompleteUpdate_Autocommit(c) ==
    /\ pc[c] = "complete_update"
    /\ lock = NoOne
    /\ attempts' = UpdateCompleted(attempts, local[c].attempt_id, clock,
                                   local[c].grade_result.score, local[c].time_taken,
                                   local[c].passed)
    /\ pending' = [pending EXCEPT ![c] = <<[kind |-> "committed"]>>]
    /\ lock' = c
    /\ pc' = [pc EXCEPT ![c] = "complete_insert"]
    /\ UNCHANGED <<questions, quizzes, question_results, clock, local, ncalls>>

\* completed_at = _now() and UPDATE attempts SET completed_at=?, ...: begins
\* the transaction
CompleteUpdate(c) ==
    /\ pc[c] = "complete_update"
    /\ lock = NoOne
    /\ pending' = [pending EXCEPT ![c] =
                      <<[kind |-> "update_completed",
                         attempt_id |-> local[c].attempt_id,
                         completed_at |-> clock,
                         score |-> local[c].grade_result.score,
                         time_taken |-> local[c].time_taken,
                         passed |-> local[c].passed]>>]
    /\ lock' = c
    /\ pc' = [pc EXCEPT ![c] = "complete_insert"]
    /\ UNCHANGED <<store, clock, local, ncalls>>

\* the results still to be stored by the loop of complete_attempt
LoopDone(c) == Len(pending[c]) > Len(local[c].grade_result.results)

\* one iteration of the loop: INSERT OR REPLACE INTO question_results
CompleteInsert(c) ==
    /\ pc[c] = "complete_insert"
    /\ ~LoopDone(c)
    /\ pending' = [pending EXCEPT ![c] =
                      Append(@, [kind |-> "insert_result",
                                 row |-> ResultRow(local[c].attempt_id,
                                            local[c].grade_result.results[Len(@)])])]
    /\ UNCHANGED <<store, clock, pc, local, ncalls, lock>>

\* the rows a commit of these writes leaves in the two tables
Committed(writes) ==
    [attempts |-> ApplyAttempts(attempts, writes),
     question_results |-> ApplyResults(question_results, writes)]

\* the connection has run the last statement of its with block
AtExit(c) == pc[c] = "commit" \/ (pc[c] = "complete_insert" /\ LoopDone(c))

\* the with block exits normally: conn.commit(), and the call returns
Commit(c) ==
    /\ AtExit(c)
    /\ lock = c
    /\ attempts' = Committed(pending[c]).attempts
    /\ question_results' = Committed(pending[c]).question_results
    /\ pending' = [pending EXCEPT ![c] = <<>>]
    /\ lock' = NoOne
    /\ pc' = [pc EXCEPT ![c] = "idle"]
    /\ local' = [local EXCEPT ![c] = NoCall]
    /\ UNCHANGED <<questions, quizzes, clock, ncalls>>

\* a statement raises inside the with block (the store fails, the process
\* dies): conn.rollback(), and the exception reaches the caller
Fail(c) ==
    /\ lock = c
    /\ pending' = [pending EXCEPT ![c] = <<>>]
    /\ lock' = NoOne
    /\ pc' = [pc EXCEPT ![c] = "idle"]
    /\ local' = [local EXCEPT ![c] = NoCall]
    /\ UNCHANGED <<store, clock, ncalls>>

ConcNext ==
    \/ \E c \in Conns, quiz_id \in ConcQuizIds, student_id \in ConcStudents :
           StartRead(c, quiz_id, student_id)
    \/ \E c \in Conns : StartInsert(c)
    \/ \E c \in Conns, attempt_id \in 1..MaxRows, input \in ConcSubmitInputs :
           SubmitRead(c, attempt_id, input[1], input[2])
    \/ \E c \in Conns : SubmitUpdate(c)
    \/ \E c \in Conns, attempt_id \in 1..MaxRows : CompleteRead(c, attempt_id)
    \/ \E c \in Conns : CompleteUpdate(c)
    \/ \E c \in Conns : CompleteInsert(c)
    \/ \E c \in Conns : Commit(c)
    \/ \E c \in Conns : Fail(c)

ConcSpec == Init /\ [][ConcNext]_vars

-----------------------------------------------------------------------------
(* Other stores: any question and quiz that create_question and            *)
(* create_quiz insert.  Neither validates its arguments, so points may be  *)
(* zero or negative and a quiz may name no question, a question that is    *)
(* not stored, or the same question twice.                                 *)

\* the points argument of create_question
PointValues == {-1, 0, 1}

\* the question_ids argument of create_quiz
QuestionIdLists ==
    { <<>>, <<"q9">>, <<"q1", "q3">>, <<"q4", "q4">>, <<"q1", "q3", "q4">> }

PARIS_STR == <<"P", "a", "r", "i", "s">>

\* the questions table: a multiple_choice, a multi_select and a short_answer
\* question
GradeQuestionStore(p1, p3) ==
    << [id |-> "q1", type |-> "multiple_choice", correct_answer |-> <<"b">>,
        difficulty |-> "easy", tags |-> {"math"}, points |-> p1],
       [id |-> "q3", type |-> "multi_select", correct_answer |-> <<"a", ",", "c">>,
        difficulty |-> "medium", tags |-> {"math"}, points |-> p3],
       [id |-> "q4", type |-> "short_answer", correct_answer |-> PARIS_STR,
        difficulty |-> "hard", tags |-> {"general"}, points |-> 1] >>

\* the quizzes table: one quiz, one attempt allowed
GradeQuizStore(question_ids) ==
    << [id |-> "z1", question_ids |-> question_ids, time_limit_mins |-> 30,
        passing_score |-> 5000, max_attempts |-> 1] >>

\* the (question_id, answer) pairs submit_answer is called with
GradeInputs ==
    { <<"q1", <<" ", "B">> >>,
      <<"q3", <<"c", ",", " ", "A">> >>,
      <<"q3", <<"a", ",", "c", ",", "a">> >>,
      <<"q3", <<"a", ",", ",", "c", " ">> >>,
      <<"q3", <<"a">> >>,
      <<"q3", <<"a", "c">> >>,
      <<"q4", <<"a", "t", " ", "P", "A", "R", "i", "S", " ">> >>,
      <<"q4", <<" ", "p", "a", "r", "i", "s">> >>,
      <<"q4", <<"p", "a", "r">> >>,
      <<"q4", <<"p", "a", " ", "r", "i", "s">> >> }

GradeInit ==
    /\ \E p1, p3 \in PointValues : questions = GradeQuestionStore(p1, p3)
    /\ \E question_ids \in QuestionIdLists : quizzes = GradeQuizStore(question_ids)
    /\ attempts = <<>>
    /\ question_results = <<>>
    /\ clock = 0
    /\ pc = [c \in Conns |-> "idle"]
    /\ local = [c \in Conns |-> NoCall]
    /\ pending = [c \in Conns |-> <<>>]
    /\ ncalls = [c \in Conns |-> 0]
    /\ lock = NoOne

\* one student takes the quiz, calls one at a time
GradeNext ==
    \/ Tick
    \/ StartAttempt("z1", "s1")
    \/ \E input \in GradeInputs : SubmitAnswer(1, input[1], input[2])
    \/ CompleteAttempt(1)

GradeSpec == GradeInit /\ [][GradeNext]_vars

-----------------------------------------------------------------------------
(* Analytics: reads of the committed store.  Rates are in tenths of a      *)
(* percent (50.0 is 500), scores and minutes in hundredths.                *)

\* the positions k of a sequence, as the sequence of its elements that
\* satisfy keep[k]
RECURSIVE Select(_, _)
Select(rows, keep) ==
    IF rows = <<>> THEN <<>>
    ELSE (IF keep[1] THEN <<Head(rows)>> ELSE <<>>)
             \o Select(Tail(rows), [k \in 1..(Len(rows) - 1) |-> keep[k + 1]])

\* a faulty SELECT that also returns the attempts in progress
QuizAttempts_AnyStatus(quiz_id) ==
    Select(attempts, [k \in 1..Len(attempts) |-> attempts[k].quiz_id = quiz_id])

\* SELECT * FROM attempts WHERE quiz_id=? AND completed_at IS NOT NULL
QuizAttempts(quiz_id) ==
    Select(attempts, [k \in 1..Len(attempts) |->
                         /\ attempts[k].quiz_id = quiz_id
                         /\ ~IsNull(attempts[k].completed_at)])

\* a faulty SELECT that also returns the attempts in progress
StudentAttempts_AnyStatus(student_id) ==
    Select(attempts, [k \in 1..Len(attempts) |-> attempts[k].student_id = student_id])

\* SELECT * FROM attempts WHERE student_id=? AND completed_at IS NOT NULL
StudentAttempts(student_id) ==
    Select(attempts, [k \in 1..Len(attempts) |->
                         /\ attempts[k].student_id = student_id
                         /\ ~IsNull(attempts[k].completed_at)])

\* [a["score"] for a in attempts if a["score"] is not None]
ScoresOf(rows) ==
    LET kept == Select(rows, [k \in 1..Len(rows) |-> ~IsNull(rows[k].score)])
    IN  [k \in 1..Len(kept) |-> Val(kept[k].score)]

\* [a["time_taken_mins"] for a in attempts if a["time_taken_mins"] is not None]
TimesOf(rows) ==
    LET kept == Select(rows, [k \in 1..Len(rows) |-> ~IsNull(rows[k].time_taken_mins)])
    IN  [k \in 1..Len(kept) |-> Val(kept[k].time_taken_mins)]

\* the rows with a truthy passed column
PassedCount(rows) ==
    Cardinality({k \in 1..Len(rows) :
                    ~IsNull(rows[k].passed) /\ Val(rows[k].passed) # 0})

\* a faulty count of students: the number of attempts
UniqueStudents_PerAttempt(rows) == Len(rows)

\* len({a["student_id"] for a in attempts})
UniqueStudents(rows) == Cardinality({rows[k].student_id : k \in 1..Len(rows)})

\* round(sum(values) / len(values), 2) if values else None
Mean(values) ==
    IF values = <<>> THEN Null
    ELSE Some(RoundHalfEven(SumSeq(values), Len(values)))

\* min(values) if values else None
MinOf(values) ==
    IF values = <<>> THEN Null
    ELSE Some(CHOOSE v \in Range(values) : \A w \in Range(values) : v <= w)

\* max(values) if values else None
MaxOf(values) ==
    IF values = <<>> THEN Null
    ELSE Some(CHOOSE v \in Range(values) : \A w \in Range(values) : v >= w)

\* round(c / t * 100, 1) if t > 0 else None
Rate(c, t) == IF t > 0 THEN Some(RoundHalfEven(c * 1000, t)) ELSE Null

\* the question_results rows counted for a question of a quiz: those of the
\* quiz's completed attempts
CountedRows(question_id, quiz_id) ==
    {k \in 1..Len(question_results) :
        /\ question_results[k].question_id = question_id
        /\ \E i \in 1..Len(attempts) :
               /\ question_results[k].attempt_id = attempts[i].id
               /\ attempts[i].quiz_id = quiz_id
               /\ ~IsNull(attempts[i].completed_at)}

\* one entry of question_stats
QuestionStat(q, quiz_id) ==
    LET counted == CountedRows(q.id, quiz_id)
        correct_n == Cardinality({k \in counted : question_results[k].is_correct # 0})
        total_n == Cardinality(counted)
    IN  [question_id |-> q.id, difficulty |-> q.difficulty,
         correct_rate |-> Rate(correct_n, total_n), total_answers |-> total_n]

\* the sort key: x["correct_rate"] or 100, where None and 0.0 are both falsy
SortKey(stat) ==
    IF IsNull(stat.correct_rate) \/ Val(stat.correct_rate) = 0
    THEN 1000 ELSE Val(stat.correct_rate)

\* list.sort(key=...): stable, ascending; x goes behind every entry whose
\* key is not greater
RECURSIVE InsertSorted(_, _)
InsertSorted(sorted, x) ==
    IF sorted = <<>> THEN <<x>>
    ELSE IF SortKey(Head(sorted)) <= SortKey(x)
    THEN <<Head(sorted)>> \o InsertSorted(Tail(sorted), x)
    ELSE <<x>> \o sorted

RECURSIVE SortStats(_)
SortStats(stats) ==
    IF stats = <<>> THEN <<>>
    ELSE InsertSorted(SortStats(SubSeq(stats, 1, Len(stats) - 1)), stats[Len(stats)])

\* s[:n]
FirstN(s, n) == SubSeq(s, 1, IF Len(s) < n THEN Len(s) ELSE n)

\* list(reversed(s[-n:]))
LastNReversed(s, n) ==
    LET m == IF Len(s) < n THEN Len(s) ELSE n
    IN  [k \in 1..m |-> s[Len(s) + 1 - k]]

get_analytics(quiz_id) ==
    LET quiz == get_quiz(quiz_id)
        rows == QuizAttempts(quiz_id)
    IN  IF IsNull(quiz) THEN Error("Quiz not found")
        ELSE IF rows = <<>>
        THEN [quiz_id |-> quiz_id, total_attempts |-> 0, unique_students |-> 0,
              avg_score |-> Null, pass_rate |-> Null, question_stats |-> <<>>]
        ELSE LET scores == ScoresOf(rows)
                 qs == FoundQuestions(Val(quiz).question_ids)
                 question_stats ==
                     SortStats([k \in 1..Len(qs) |-> QuestionStat(qs[k], quiz_id)])
             IN  [quiz_id |-> quiz_id,
                  total_attempts |-> Len(rows),
                  unique_students |-> UniqueStudents(rows),
                  avg_score |-> Mean(scores),
                  min_score |-> MinOf(scores),
                  max_score |-> MaxOf(scores),
                  pass_rate |-> Rate(PassedCount(rows), Len(rows)),
                  avg_time_mins |-> Mean(TimesOf(rows)),
                  passing_score |-> Val(quiz).passing_score,
                  hardest_questions |-> FirstN(question_stats, 3),
                  easiest_questions |-> LastNReversed(question_stats, 3),
                  question_stats |-> question_stats]

\* the question_results rows of the attempts joined with the questions
\* table, for one difficulty
JoinedRows(rows, difficulty) ==
    {k \in 1..Len(question_results) :
        /\ \E i \in 1..Len(rows) : question_results[k].attempt_id = rows[i].id
        /\ \E q \in Range(questions) :
               q.id = question_results[k].question_id /\ q.difficulty = difficulty}

\* one bucket of performance_by_difficulty
Bucket(rows, difficulty) ==
    LET joined == JoinedRows(rows, difficulty)
        correct == SumSeq([k \in 1..Len(question_results) |->
                              IF k \in joined THEN question_results[k].is_correct ELSE 0])
    IN  [correct_rate |-> Rate(correct, Cardinality(joined)),
         total |-> Cardinality(joined)]

get_student_analytics(student_id) ==
    LET rows == StudentAttempts(student_id)
    IN  IF rows = <<>>
        THEN [student_id |-> student_id, total_attempts |-> 0]
        ELSE [student_id |-> student_id,
              total_attempts |-> Len(rows),
              unique_quizzes |-> Cardinality({rows[k].quiz_id : k \in 1..Len(rows)}),
              avg_score |-> Mean(ScoresOf(rows)),
              pass_rate |-> Rate(PassedCount(rows), Len(rows)),
              performance_by_difficulty |->
                  [easy |-> Bucket(rows, "easy"),
                   medium |-> Bucket(rows, "medium"),
                   hard |-> Bucket(rows, "hard")]]

-----------------------------------------------------------------------------
(* The adaptive selector *)

\* the most quizzes build_adaptive_quiz creates in a behaviour
MaxAdaptive == 1

\* the largest num_questions asked for
MaxNum == 2

\* list_questions: the questions table in insertion order, filtered by
\* difficulty if one is given ("" is none) and by tags if the list is not empty
list_questions(tags, difficulty) ==
    Select(questions,
           [k \in 1..Len(questions) |->
               /\ difficulty # "" => questions[k].difficulty = difficulty
               /\ tags # <<>> => \E t \in Range(tags) : t \in questions[k].tags])

\* a faulty join that takes the rows of the other students' attempts
AnsweredCorrectly_OtherStudents(student_id) ==
    {question_results[k].question_id : k \in
        {k \in 1..Len(question_results) :
            /\ question_results[k].is_correct = 1
            /\ \E i \in 1..Len(attempts) :
                   /\ attempts[i].id = question_results[k].attempt_id
                   /\ attempts[i].student_id # student_id}}

\* SELECT DISTINCT qr.question_id FROM question_results qr JOIN attempts a
\* ON qr.attempt_id = a.id WHERE a.student_id=? AND qr.is_correct=1
AnsweredCorrectly(student_id) ==
    {question_results[k].question_id : k \in
        {k \in 1..Len(question_results) :
            /\ question_results[k].is_correct = 1
            /\ \E i \in 1..Len(attempts) :
                   /\ attempts[i].id = question_results[k].attempt_id
                   /\ attempts[i].student_id = student_id}}

\* [q for q in qs if q.id not in answered_correctly]
Candidates(qs, answered_correctly) ==
    Select(qs, [k \in 1..Len(qs) |-> qs[k].id \notin answered_correctly])

\* _uid() for a quiz: an id no stored quiz has
QuizUids == <<"a1", "a2", "a3">>

\* create_quiz on a given quizzes table, with the default max_attempts
create_quiz(table, question_ids, time_limit_mins, passing_score) ==
    Append(table,
           [id |-> QuizUids[Len(table) - Len(QuizStore(2)) + 1],
            question_ids |-> question_ids, time_limit_mins |-> time_limit_mins,
            passing_score |-> passing_score, max_attempts |-> 3])

\* what build_adaptive_quiz does to the quizzes table and what it returns
AdaptiveOutcome(table, student_id, topic_tags, target_difficulty, num_questions) ==
    LET answered_correctly == AnsweredCorrectly(student_id)
        first == Candidates(list_questions(topic_tags, target_difficulty),
                            answered_correctly)
        candidates == IF Len(first) < num_questions
                      THEN Candidates(list_questions(topic_tags, ""),
                                      answered_correctly)
                      ELSE first
        selected == FirstN(candidates, num_questions)
        created == create_quiz(table, [k \in 1..Len(selected) |-> selected[k].id],
                               Len(selected) * 3, 7000)
    IN  IF candidates = <<>>
        THEN [table |-> table,
              value |-> Error("No questions available for adaptive quiz")]
        ELSE [table |-> created, value |-> created[Len(created)]]

BuildAdaptiveQuiz(student_id, topic_tags, target_difficulty, num_questions) ==
    LET out == AdaptiveOutcome(quizzes, student_id, topic_tags,
                               target_difficulty, num_questions)
    IN  /\ Len(out.table) <= Len(QuizStore(2)) + MaxAdaptive
        /\ quizzes' = out.table
        /\ UNCHANGED <<questions, attempts, question_results, clock, conns>>

\* the topic_tags lists: none, one tag, two tags, a tag no question carries
TagLists == { <<>>, <<"math">>, <<"general", "math">>, <<"art">> }

Difficulties == {"easy", "medium", "hard"}

\* the answers submitted before an adaptive quiz is built: the correct ones
\* and a wrong one
AdaptSubmitInputs ==
    { <<"q1", <<" ", "B">> >>, <<"q2", <<"f">> >>,
      <<"q3", <<"c", ",", " ", "A">> >> }

AdaptNext ==
    \/ \E quiz_id \in {"z1", "z2"}, student_id \in Students :
           StartAttempt(quiz_id, student_id)
    \/ \E attempt_id \in 1..MaxRows, input \in AdaptSubmitInputs :
           SubmitAnswer(attempt_id, input[1], input[2])
    \/ \E attempt_id \in 1..MaxRows : CompleteAttempt(attempt_id)
    \/ \E student_id \in Students, topic_tags \in TagLists,
          target_difficulty \in Difficulties, num_questions \in 1..MaxNum :
           BuildAdaptiveQuiz(student_id, topic_tags, target_difficulty, num_questions)

AdaptSpec == Init /\ [][AdaptNext]_vars

-----------------------------------------------------------------------------
(* What the claims are stated with *)

AttemptIds == 1..Len(attempts)

InProgress(i) == IsNull(attempts[i].completed_at)

Completed(i) == ~IsNull(attempts[i].completed_at)

\* the quiz ids the store holds
StoredQuizIds == {quizzes[k].id : k \in 1..Len(quizzes)}

QuizOf(quiz_id) == CHOOSE z \in Range(quizzes) : z.id = quiz_id

\* the ids a quiz names that are ids of stored questions
Resolves(question_id) == \E q \in Range(questions) : q.id = question_id

PointsOf(question_id) == (CHOOSE q \in Range(questions) : q.id = question_id).points

\* the question ids of attempt i's quiz that are graded
GradedIds(i) ==
    {question_id \in Range(QuizOf(attempts[i].quiz_id).question_ids) :
        Resolves(question_id)}

Abs(x) == IF x < 0 THEN -x ELSE x

\* the question_results rows of attempt i for one question
RowsFor(i, question_id) ==
    {k \in 1..Len(question_results) :
        /\ question_results[k].attempt_id = i
        /\ question_results[k].question_id = question_id}

-----------------------------------------------------------------------------
(* C1 *)

\* C1: in every reachable state every attempt has score, completed_at and
\* passed all NULL (from start_attempt until complete_attempt) or all set
C1_NullTogether ==
    \A i \in AttemptIds :
        /\ IsNull(attempts[i].score) <=> IsNull(attempts[i].completed_at)
        /\ IsNull(attempts[i].passed) <=> IsNull(attempts[i].completed_at)

\* an attempt completed, with all three set, beside one still in progress
C1_Witness ==
    \E i, j \in AttemptIds :
        /\ IsNull(attempts[i].score) /\ InProgress(i) /\ IsNull(attempts[i].passed)
        /\ ~IsNull(attempts[j].score) /\ Completed(j) /\ ~IsNull(attempts[j].passed)

-----------------------------------------------------------------------------
(* C2 *)

\* C2: sequentially, no (quiz_id, student_id) pair has more attempts than the
\* quiz's max_attempts, and for a pair that has max_attempts attempts, in
\* progress or completed, start_attempt returns the max-attempts error and
\* leaves the attempts table as it is
C2_LimitEnforced ==
    \A quiz_id \in StoredQuizIds, student_id \in Students :
        LET n == CountAttempts(attempts, quiz_id, student_id)
            out == StartOutcome(attempts, quiz_id, student_id, clock)
        IN  /\ n <= QuizOf(quiz_id).max_attempts
            /\ n >= QuizOf(quiz_id).max_attempts =>
                   /\ out.value = Error("Max attempts reached")
                   /\ out.table = attempts

\* a pair at its limit of two attempts, one completed and one in progress
C2_Witness ==
    \E i, j \in AttemptIds :
        /\ i # j
        /\ attempts[i].quiz_id = attempts[j].quiz_id
        /\ attempts[i].student_id = attempts[j].student_id
        /\ QuizOf(attempts[i].quiz_id).max_attempts = 2
        /\ Completed(i) /\ InProgress(j)

-----------------------------------------------------------------------------
(* C3 *)

\* C3: on an attempt whose completed_at is set, submit_answer and
\* complete_attempt return the already-completed error and leave the attempts
\* and question_results tables as they are
C3_CompletedRejects ==
    \A i \in AttemptIds :
        Completed(i) =>
            /\ \A input \in SubmitInputs :
                   LET out == SubmitOutcome(attempts, i, input[1], input[2])
                   IN  /\ out.value = Error("Attempt already completed")
                       /\ out.table = attempts
            /\ LET out == CompleteOutcome(attempts, question_results, i, clock)
               IN  /\ out.value = Error("Attempt already completed")
                   /\ out.table = attempts
                   /\ out.results_table = question_results

\* a completed attempt that holds an answer and has question_results rows,
\* at a time later than its completion
C3_Witness ==
    \E i \in AttemptIds :
        /\ Completed(i)
        /\ attempts[i].answers # <<>>
        /\ ResultsOf(question_results, i) # <<>>
        /\ clock > Val(attempts[i].completed_at)

-----------------------------------------------------------------------------
(* C4 *)

\* C4: in every behaviour no attempt row is removed, and once an attempt is
\* completed its completed_at, score, passed and time_taken_mins never change
C4_ForwardOnly ==
    [][\A i \in AttemptIds :
          /\ i <= Len(attempts')
          /\ Completed(i) =>
                /\ attempts'[i].completed_at = attempts[i].completed_at
                /\ attempts'[i].score = attempts[i].score
                /\ attempts'[i].passed = attempts[i].passed
                /\ attempts'[i].time_taken_mins = attempts[i].time_taken_mins]_vars

-----------------------------------------------------------------------------
(* C5 *)

\* C5: in every committed state, the state another connection reads, an
\* attempt is either in progress with score and passed NULL and no
\* question_results row, or completed with score and passed set and, for
\* every graded question, the rows of every transaction that completed it;
\* and no row names an attempt the attempts table does not hold
C5_AtomicCompletion ==
    /\ \A k \in 1..Len(question_results) :
           question_results[k].attempt_id \in AttemptIds
    /\ \A i \in AttemptIds :
           IF InProgress(i)
           THEN /\ ResultsOf(question_results, i) = <<>>
                /\ IsNull(attempts[i].score)
                /\ IsNull(attempts[i].passed)
           ELSE /\ ~IsNull(attempts[i].score)
                /\ ~IsNull(attempts[i].passed)
                /\ \A q1, q2 \in GradedIds(i) :
                       /\ RowsFor(i, q1) # {}
                       /\ Cardinality(RowsFor(i, q1)) = Cardinality(RowsFor(i, q2))

\* a connection part-way through complete_attempt, its UPDATE and a first
\* row written but not committed, while the store shows the attempt in progress
C5_Witness ==
    \E c \in Conns :
        /\ pc[c] = "complete_insert"
        /\ Len(pending[c]) = 2
        /\ lock = c
        /\ InProgress(local[c].attempt_id)
        /\ ResultsOf(question_results, local[c].attempt_id) = <<>>

-----------------------------------------------------------------------------
(* C6 *)

\* C6: under any interleaving of concurrent start_attempt calls no
\* (quiz_id, student_id) pair has more attempts than the quiz's max_attempts
C6_NoOverLimit ==
    \A quiz_id \in StoredQuizIds, student_id \in Students :
        CountAttempts(attempts, quiz_id, student_id) <= QuizOf(quiz_id).max_attempts

-----------------------------------------------------------------------------
(* C7 *)

\* C7: under any interleaving of concurrent complete_attempt calls an attempt
\* is completed once: its question_results rows are those of one call, one
\* row for each graded question
C7_CompletedOnce ==
    \A i \in AttemptIds :
        \A question_id \in GradedIds(i) : Cardinality(RowsFor(i, question_id)) <= 1

-----------------------------------------------------------------------------
(* C8 *)

\* C8: under any interleaving of submit_answer with complete_attempt the
\* answers stored on a completed attempt are the answers that were graded:
\* every question_results row holds the normalized stored answer
C8_StoredAnswersGraded ==
    \A i \in AttemptIds :
        Completed(i) =>
            \A k \in 1..Len(question_results) :
                question_results[k].attempt_id = i =>
                    question_results[k].student_answer =
                        Normalize(AnswerOf(attempts[i].answers,
                                           question_results[k].question_id))

-----------------------------------------------------------------------------
(* C9 *)

\* the sum of the points of the quiz's question ids that resolve
C9_Total(i) ==
    LET ids == QuizOf(attempts[i].quiz_id).question_ids
    IN  SumSeq([k \in 1..Len(ids) |->
                   IF Resolves(ids[k]) THEN PointsOf(ids[k]) ELSE 0])

\* the sum of the points of those graded correct
C9_Earned(i) ==
    LET ids == QuizOf(attempts[i].quiz_id).question_ids
    IN  SumSeq([k \in 1..Len(ids) |->
                   IF /\ Resolves(ids[k])
                      /\ \E r \in RowsFor(i, ids[k]) : question_results[r].is_correct = 1
                   THEN PointsOf(ids[k]) ELSE 0])

\* the questions of quiz z1, a multiple_choice with correct answer b and a
\* true_false with correct answer true, that an attempt answers correctly
C9_CorrectInZ1(i) ==
    (IF Normalize(AnswerOf(attempts[i].answers, "q1")) = <<"b">> THEN 1 ELSE 0)
        + (IF Normalize(AnswerOf(attempts[i].answers, "q2")) = TRUE_STR THEN 1 ELSE 0)

\* C9: the score of a completed attempt is 100 * earned / total rounded to two
\* decimals (the nearest hundredth), over the quiz's questions that are in
\* the question store; rows are graded for those questions only, so answers
\* under other ids do not count; and on the quiz of two one-point questions
\* one correct answer scores 50.0, two 100.0 and none 0.0
C9_ScoreFormula ==
    \A i \in AttemptIds :
        Completed(i) =>
            /\ C9_Total(i) > 0 =>
                   2 * Abs(Val(attempts[i].score) * C9_Total(i) - 10000 * C9_Earned(i))
                       <= C9_Total(i)
            /\ \A k \in 1..Len(question_results) :
                   question_results[k].attempt_id = i =>
                       question_results[k].question_id \in GradedIds(i)
            /\ attempts[i].quiz_id = "z1" =>
                   Val(attempts[i].score) = 5000 * C9_CorrectInZ1(i)

\* a completed attempt on z1 scoring 50.0 that also holds an answer under a
\* question id not in the quiz, and a completed attempt on z2, which names a
\* question that is not stored, whose score is not a whole number of percent
C9_Witness ==
    \E i, j \in AttemptIds :
        /\ Completed(i) /\ attempts[i].quiz_id = "z1"
        /\ Val(attempts[i].score) = 5000
        /\ "q3" \in DOMAIN attempts[i].answers
        /\ Completed(j) /\ attempts[j].quiz_id = "z2"
        /\ Val(attempts[j].score) % 100 # 0

-----------------------------------------------------------------------------
(* C10 *)

\* C10: a completed attempt's stored passed flag is 1 exactly when its score
\* is at least the quiz's passing_score, and completing an attempt in
\* progress stores the passed flag and the score that it returns
C10_PassedRule ==
    \A i \in AttemptIds :
        LET passing_score == QuizOf(attempts[i].quiz_id).passing_score
            out == CompleteOutcome(attempts, question_results, i, clock)
        IN  IF Completed(i)
            THEN /\ attempts[i].passed \in {Some(0), Some(1)}
                 /\ attempts[i].passed = Some(1) <=>
                        Val(attempts[i].score) >= passing_score
            ELSE /\ out.value.passed <=> out.value.score >= passing_score
                 /\ out.table[i].passed = Some(BoolToInt(out.value.passed))
                 /\ out.table[i].score = Some(out.value.score)

\* a completed attempt whose score equals the passing score, and passed
C10_Witness ==
    \E i \in AttemptIds :
        /\ Completed(i)
        /\ Val(attempts[i].score) = QuizOf(attempts[i].quiz_id).passing_score
        /\ attempts[i].passed = Some(1)

-----------------------------------------------------------------------------
(* C11 *)

\* the submitted multi_select answers whose comma-separated, trimmed,
\* non-empty tokens are a and c: reordered, repeated, with an empty token
C11_SameTokens ==
    { <<"c", ",", " ", "A">>, <<"a", ",", "c", ",", "a">>,
      <<"a", ",", ",", "c", " ">> }

-----------------------------------------------------------------------------
(* C12 *)

\* s holds c at some offset; s = c is the case of offset 0 and equal lengths
C12_Holds(c, s) ==
    \E k \in 0..(Len(s) - Len(c)) : \A j \in 1..Len(c) : s[k + j] = c[j]

\* C12: a short_answer question is graded correct iff the trimmed,
\* lower-cased student answer equals or contains the trimmed, lower-cased
\* correct_answer, and the row stores that trimmed, lower-cased answer
C12_ShortAnswer ==
    \A i \in AttemptIds :
        \A r \in RowsFor(i, "q4") :
            LET s == Lower(Strip(AnswerOf(attempts[i].answers, "q4")))
                c == Lower(Strip(PARIS_STR))
            IN  /\ question_results[r].student_answer = s
                /\ question_results[r].is_correct = 1 <=> C12_Holds(c, s)

\* a completed attempt whose answer "at PARiS " to the question with correct
\* answer Paris was graded correct
C12_Witness ==
    \E i \in AttemptIds :
        /\ Completed(i)
        /\ Len(AnswerOf(attempts[i].answers, "q4")) > Len(PARIS_STR) + 1
        /\ \E r \in RowsFor(i, "q4") : question_results[r].is_correct = 1

-----------------------------------------------------------------------------
(* C13 *)

\* C13: when the points of the graded questions total 0 (no question ids,
\* none that resolves, or points that sum to 0), completing the attempt
\* returns a result, not an error, with score 0.0, and stores the attempt as
\* completed with score 0.0
C13_ZeroTotal ==
    \A i \in AttemptIds :
        C9_Total(i) = 0 =>
            IF Completed(i)
            THEN attempts[i].score = Some(0)
            ELSE LET out == CompleteOutcome(attempts, question_results, i, clock)
                 IN  /\ ~IsError(out.value)
                     /\ out.value.score = 0
                     /\ ~IsNull(out.table[i].completed_at)
                     /\ out.table[i].score = Some(0)

\* a completed attempt with score 0.0 on a quiz whose questions' points
\* total 0, one of them answered correctly
C13_Witness ==
    \E i \in AttemptIds :
        /\ Completed(i)
        /\ C9_Total(i) = 0
        /\ attempts[i].score = Some(0)
        /\ \E k \in 1..Len(question_results) :
               question_results[k].attempt_id = i /\ question_results[k].is_correct = 1

-----------------------------------------------------------------------------
(* C14 *)

\* the sum of points_possible over the question_results rows of attempt i
C14_RowsTotal(i) ==
    LET rows == ResultsOf(question_results, i)
    IN  SumSeq([k \in 1..Len(rows) |-> rows[k].points_possible])

\* C14: for every completed attempt the points_possible of its
\* question_results rows sum to the points of the quiz's question ids that
\* resolve to a stored question, and no row names an id that does not resolve
C14_PointsPossible ==
    \A i \in AttemptIds :
        Completed(i) =>
            /\ C14_RowsTotal(i) = C9_Total(i)
            /\ \A k \in 1..Len(question_results) :
                   question_results[k].attempt_id = i =>
                       Resolves(question_results[k].question_id)

-----------------------------------------------------------------------------
(* C15 *)

\* what grade_attempt_dict returns now for the answers stored on attempt i
C15_Regrade(i) == grade_attempt_dict(attempts[i].answers, attempts[i].quiz_id)

-----------------------------------------------------------------------------
(* C16 *)

\* C16: submit_answer on an attempt in progress, with any question id of the
\* quiz or not, returns a result, sets answers[question_id] to the answer
\* whether or not one was stored, keeps the other answers, the attempt's
\* other fields and every other attempt, and submitting the same pair again
\* changes nothing more
C16_SubmitFrame ==
    \A i \in AttemptIds, input \in SubmitInputs :
        InProgress(i) =>
            LET out == SubmitOutcome(attempts, i, input[1], input[2])
                again == SubmitOutcome(out.table, i, input[1], input[2])
                old == attempts[i].answers
                new == out.table[i].answers
            IN  /\ ~IsError(out.value)
                /\ Len(out.table) = Len(attempts)
                /\ DOMAIN new = DOMAIN old \cup {input[1]}
                /\ new[input[1]] = input[2]
                /\ \A k \in DOMAIN old \ {input[1]} : new[k] = old[k]
                /\ [out.table[i] EXCEPT !.answers = old] = attempts[i]
                /\ \A j \in AttemptIds \ {i} : out.table[j] = attempts[j]
                /\ again.table = out.table

\* an attempt in progress on quiz z1 that holds the answer f to q2, which
\* another submitted answer overwrites, and an answer to q3, which is not a
\* question of z1, beside another attempt with answers
C16_Witness ==
    \E i, j \in AttemptIds :
        /\ i # j
        /\ InProgress(i) /\ attempts[i].quiz_id = "z1"
        /\ {"q2", "q3"} \subseteq DOMAIN attempts[i].answers
        /\ attempts[i].answers["q2"] = <<"f">>
        /\ attempts[j].answers # <<>>

-----------------------------------------------------------------------------
(* C17 *)

\* C17: a start_attempt that returns an attempt appends exactly that one
\* row, for the given quiz_id and student_id, with empty answers and score,
\* completed_at, time_taken_mins and passed NULL; and every step that adds
\* an attempt adds one row and changes no existing attempt, quiz, question
\* or question_results row
C17_StartFrame ==
    [][ /\ \A quiz_id \in QuizIds, student_id \in Students :
               LET out == StartOutcome(attempts, quiz_id, student_id, clock)
               IN  ~IsError(out.value) =>
                       /\ out.table = Append(attempts, out.value)
                       /\ out.value.quiz_id = quiz_id
                       /\ out.value.student_id = student_id
                       /\ out.value.answers = <<>>
                       /\ IsNull(out.value.score)
                       /\ IsNull(out.value.completed_at)
                       /\ IsNull(out.value.time_taken_mins)
                       /\ IsNull(out.value.passed)
        /\ Len(attempts') # Len(attempts) =>
               /\ Len(attempts') = Len(attempts) + 1
               /\ SubSeq(attempts', 1, Len(attempts)) = attempts
               /\ questions' = questions
               /\ quizzes' = quizzes
               /\ question_results' = question_results ]_vars

\* a new attempt, in progress with no answers, after a completed attempt
\* with answers and question_results rows
C17_Witness ==
    /\ Len(attempts) = 2
    /\ Completed(1)
    /\ attempts[1].answers # <<>>
    /\ ResultsOf(question_results, 1) # <<>>
    /\ InProgress(2)
    /\ attempts[2].answers = <<>>
    /\ attempts[2].started_at > Val(attempts[1].completed_at)

-----------------------------------------------------------------------------
(* C18 *)

\* C18: start_attempt with a quiz id that names no quiz, and submit_answer
\* and complete_attempt with an attempt id that names no attempt, return an
\* error result and leave the attempts and question_results tables as they
\* were
C18_NotFound ==
    /\ \A quiz_id \in QuizIds \ StoredQuizIds, student_id \in Students :
           LET out == StartOutcome(attempts, quiz_id, student_id, clock)
           IN  out.value = Error("Quiz not found") /\ out.table = attempts
    /\ \A attempt_id \in (0..(MaxRows + 1)) \ AttemptIds :
           /\ \A input \in SubmitInputs :
                  LET out == SubmitOutcome(attempts, attempt_id, input[1], input[2])
                  IN  out.value = Error("Attempt not found") /\ out.table = attempts
           /\ LET out == CompleteOutcome(attempts, question_results, attempt_id, clock)
              IN  /\ out.value = Error("Attempt not found")
                  /\ out.table = attempts
                  /\ out.results_table = question_results

\* a store with an attempt in progress that holds answers and a completed
\* attempt with its rows, on which the calls with unknown ids are made
C18_Witness ==
    \E i, j \in AttemptIds :
        /\ InProgress(i) /\ attempts[i].answers # <<>>
        /\ Completed(j) /\ ResultsOf(question_results, j) # <<>>
        /\ (MaxRows + 1) \notin AttemptIds

-----------------------------------------------------------------------------
(* C19 *)

\* C19: for every quiz create_quiz accepts, an attempt in progress has no
\* question_results row and a completed attempt has exactly one row for
\* each graded question
C19_OneRowPerPair ==
    \A i \in AttemptIds :
        IF InProgress(i)
        THEN ResultsOf(question_results, i) = <<>>
        ELSE \A question_id \in GradedIds(i) :
                 Cardinality(RowsFor(i, question_id)) = 1

-----------------------------------------------------------------------------
(* C20 *)

\* C20: for every question and quiz create_question and create_quiz accept,
\* the score of a completed attempt is between 0.0 and 100.0
C20_ScoreRange ==
    \A i \in AttemptIds :
        Completed(i) =>
            Val(attempts[i].score) >= 0 /\ Val(attempts[i].score) <= 10000

-----------------------------------------------------------------------------
(* C21 *)

\* the completed attempts on a quiz
C21_Done(quiz_id) ==
    {i \in AttemptIds : attempts[i].quiz_id = quiz_id /\ Completed(i)}

\* C21: for a stored quiz with no completed attempt, whether it has no
\* attempt or only attempts in progress, get_analytics returns a result that
\* is not an error, with total_attempts 0, unique_students 0, avg_score and
\* pass_rate null and an empty question_stats
C21_NoCompleted ==
    \A quiz_id \in StoredQuizIds :
        C21_Done(quiz_id) = {} =>
            LET r == get_analytics(quiz_id)
            IN  /\ ~IsError(r)
                /\ r.total_attempts = 0
                /\ r.unique_students = 0
                /\ IsNull(r.avg_score)
                /\ IsNull(r.pass_rate)
                /\ r.question_stats = <<>>

\* quiz z1 has an attempt in progress with answers and no completed attempt,
\* while another quiz has one
C21_Witness ==
    /\ C21_Done("z1") = {}
    /\ \E i \in AttemptIds :
           attempts[i].quiz_id = "z1" /\ attempts[i].answers # <<>>
    /\ \E j \in AttemptIds : Completed(j)

-----------------------------------------------------------------------------
(* C22 *)

\* C22: for a stored quiz with completed attempts, total_attempts is the
\* number of its completed attempts, unique_students the number of distinct
\* students among them, and pass_rate is 100 * passed / total_attempts to
\* one decimal; attempts in progress and attempts on other quizzes do not
\* count
C22_CountsCompleted ==
    \A quiz_id \in StoredQuizIds :
        LET done == C21_Done(quiz_id)
            passed == {i \in done : attempts[i].passed = Some(1)}
            n == Cardinality(done)
            r == get_analytics(quiz_id)
        IN  done # {} =>
                /\ r.total_attempts = n
                /\ r.unique_students =
                       Cardinality({attempts[i].student_id : i \in done})
                /\ ~IsNull(r.pass_rate)
                /\ 2 * Abs(Val(r.pass_rate) * n - 1000 * Cardinality(passed)) <= n

\* quiz z1 has a completed attempt that passed beside an attempt in progress
C22_Witness ==
    \E i, j \in AttemptIds :
        /\ attempts[i].quiz_id = "z1" /\ Completed(i) /\ attempts[i].passed = Some(1)
        /\ attempts[j].quiz_id = "z1" /\ InProgress(j)
        /\ attempts[j].answers # <<>>

-----------------------------------------------------------------------------
(* C23 *)

\* the rank of a question_stats entry: its correct_rate, null as 100
C23_Rank(stat) ==
    IF IsNull(stat.correct_rate) THEN 1000 ELSE Val(stat.correct_rate)

\* C23: question_stats is in ascending order of correct_rate with null as
\* 100, so a question with correct_rate 0 comes before any question with a
\* higher rate; hardest_questions is its first three entries and
\* easiest_questions its last three, last first
C23_RankedByRate ==
    \A quiz_id \in StoredQuizIds :
        C21_Done(quiz_id) # {} =>
            LET r == get_analytics(quiz_id)
                stats == r.question_stats
                n == Len(stats)
            IN  /\ \A a, b \in 1..n :
                       a < b => C23_Rank(stats[a]) <= C23_Rank(stats[b])
                /\ r.hardest_questions = SubSeq(stats, 1, IF n < 3 THEN n ELSE 3)
                /\ Len(r.easiest_questions) = (IF n < 3 THEN n ELSE 3)
                /\ \A k \in 1..Len(r.easiest_questions) :
                       r.easiest_questions[k] = stats[n + 1 - k]

-----------------------------------------------------------------------------
(* C24 *)

\* the completed attempts of a student
C24_Done(student_id) ==
    {i \in AttemptIds : attempts[i].student_id = student_id /\ Completed(i)}

\* C24: for a student with no completed attempt get_student_analytics
\* returns exactly student_id and total_attempts = 0; otherwise
\* total_attempts is the number of the student's completed attempts,
\* unique_quizzes the number of distinct quizzes among them and avg_score the
\* mean of their scores, to two decimals
C24_StudentCounts ==
    \A student_id \in Students :
        LET done == C24_Done(student_id)
            n == Cardinality(done)
            sum == SumSeq([i \in 1..Len(attempts) |->
                              IF i \in done THEN Val(attempts[i].score) ELSE 0])
            r == get_student_analytics(student_id)
        IN  IF done = {}
            THEN /\ DOMAIN r = {"student_id", "total_attempts"}
                 /\ r.student_id = student_id
                 /\ r.total_attempts = 0
            ELSE /\ r.total_attempts = n
                 /\ r.unique_quizzes = Cardinality({attempts[i].quiz_id : i \in done})
                 /\ ~IsNull(r.avg_score)
                 /\ 2 * Abs(Val(r.avg_score) * n - sum) <= n

\* one student has completed attempts on two quizzes with different scores;
\* the other has none
C24_Witness ==
    \E i, j \in AttemptIds :
        /\ attempts[i].student_id = attempts[j].student_id
        /\ attempts[i].quiz_id # attempts[j].quiz_id
        /\ Completed(i) /\ Completed(j)
        /\ attempts[i].score # attempts[j].score
        /\ \E student_id \in Students : C24_Done(student_id) = {}

-----------------------------------------------------------------------------
(* C25 *)

\* the student has a correct question_results row for the question in one of
\* the student's attempts
C25_HasCorrect(student_id, question_id) ==
    \E k \in 1..Len(question_results), i \in AttemptIds :
        /\ question_results[k].attempt_id = i
        /\ attempts[i].student_id = student_id
        /\ question_results[k].question_id = question_id
        /\ question_results[k].is_correct = 1

\* C25: after any sequence of attempts by the student and by other students,
\* a quiz that build_adaptive_quiz creates for the student names no question
\* the student has a correct question_results row for, on any quiz
C25_ExcludesCorrect ==
    \A student_id \in Students, topic_tags \in TagLists,
       target_difficulty \in Difficulties, num_questions \in 1..MaxNum :
        LET out == AdaptiveOutcome(quizzes, student_id, topic_tags,
                                   target_difficulty, num_questions)
        IN  ~IsError(out.value) =>
                \A question_id \in Range(out.value.question_ids) :
                    ~C25_HasCorrect(student_id, question_id)

\* an adaptive quiz was created that leaves out a question of the store,
\* where each student has a correct row for a different question, one of
\* them on quiz z2
C25_Witness ==
    /\ Len(quizzes) > Len(QuizStore(2))
    /\ \E question_id \in {"q1", "q2", "q3"} :
           question_id \notin Range(quizzes[Len(quizzes)].question_ids)
    /\ \E qa, qb \in {"q1", "q2", "q3"} :
           /\ qa # qb
           /\ C25_HasCorrect("s1", qa) /\ ~C25_HasCorrect("s2", qa)
           /\ C25_HasCorrect("s2", qb) /\ ~C25_HasCorrect("s1", qb)
    /\ \E i \in AttemptIds : Completed(i) /\ attempts[i].quiz_id = "z2"

-----------------------------------------------------------------------------
(* C26 *)

\* the tags of a stored question
C26_TagsOf(question_id) ==
    (CHOOSE q \in Range(questions) : q.id = question_id).tags

\* C26: for every list of topic tags, the empty one included, every
\* question of a quiz that build_adaptive_quiz creates carries at least one
\* of the given tags
C26_CarriesATag ==
    \A student_id \in Students, topic_tags \in TagLists,
       target_difficulty \in Difficulties, num_questions \in 1..MaxNum :
        LET out == AdaptiveOutcome(quizzes, student_id, topic_tags,
                                   target_difficulty, num_questions)
        IN  ~IsError(out.value) =>
                \A question_id \in Range(out.value.question_ids) :
                    \E t \in Range(topic_tags) : t \in C26_TagsOf(question_id)

-----------------------------------------------------------------------------
(* C27 *)

\* the ids, in insertion order, of the questions that carry one of the tags,
\* have the difficulty ("" is any) and that the student has no correct row for
C27_Pool(student_id, topic_tags, difficulty) ==
    LET kept == Select(questions,
                       [k \in 1..Len(questions) |->
                           /\ \E t \in Range(topic_tags) : t \in questions[k].tags
                           /\ difficulty \in {"", questions[k].difficulty}
                           /\ ~C25_HasCorrect(student_id, questions[k].id)])
    IN  [k \in 1..Len(kept) |-> kept[k].id]

\* the claim for one call of build_adaptive_quiz
C27_Holds(student_id, topic_tags, target_difficulty, num_questions) ==
    LET out == AdaptiveOutcome(quizzes, student_id, topic_tags,
                               target_difficulty, num_questions)
        at_target == C27_Pool(student_id, topic_tags, target_difficulty)
        pool == IF Len(at_target) >= num_questions
                THEN at_target
                ELSE C27_Pool(student_id, topic_tags, "")
        ids == SubSeq(pool, 1, IF Len(pool) < num_questions
                               THEN Len(pool) ELSE num_questions)
    IN  IF pool = <<>>
        THEN /\ out.value = Error("No questions available for adaptive quiz")
             /\ out.table = quizzes
        ELSE /\ ~IsError(out.value)
             /\ out.table = Append(quizzes, out.value)
             /\ out.value.question_ids = ids
             /\ out.value.time_limit_mins = 3 * Len(ids)
             /\ out.value.passing_score = 7000

\* C27: build_adaptive_quiz selects from the questions matching a tag at the
\* target difficulty that the student has not answered correctly when there
\* are at least num_questions of them, and otherwise from those of any
\* difficulty; it returns the error and creates no quiz exactly when that
\* pool is empty, and otherwise creates one quiz of the first num_questions
\* pool members in insertion order, with time_limit_mins 3 times their count
\* and passing_score 70.0
C27_Selection ==
    \A student_id \in Students, topic_tags \in TagLists,
       target_difficulty \in Difficulties, num_questions \in 1..MaxNum :
        C27_Holds(student_id, topic_tags, target_difficulty, num_questions)

-----------------------------------------------------------------------------
(* C28 *)

\* C28: under any interleaving of concurrent submit_answer calls on an
\* attempt in progress, an answer that one call has saved is not dropped by
\* another call's save for a different question id: after every step the
\* answers map still holds every question id it held before
C28_NoLostUpdate ==
    [][\A i \in AttemptIds :
          (InProgress(i) /\ i <= Len(attempts')) =>
              DOMAIN attempts[i].answers \subseteq DOMAIN attempts'[i].answers]_vars

-----------------------------------------------------------------------------
(* C29 *)

\* C29: complete_attempt on an attempt in progress returns a result and
\* stores the attempt as completed, whatever answers it holds; it returns an
\* error only for an attempt id that names no attempt and for an attempt
\* already completed
C29_AlwaysCompletes ==
    \A attempt_id \in 0..(MaxRows + 1) :
        LET out == CompleteOutcome(attempts, question_results, attempt_id, clock)
        IN  IF attempt_id \notin AttemptIds
            THEN out.value = Error("Attempt not found")
            ELSE IF Completed(attempt_id)
            THEN out.value = Error("Attempt already completed")
            ELSE /\ ~IsError(out.value)
                 /\ ~IsNull(out.table[attempt_id].completed_at)
                 /\ out.table[attempt_id].score = Some(out.value.score)

\* two attempts in progress on quiz z1: one without answers, one with an
\* answer to only one of its questions and one under an id not in the quiz
C29_Witness ==
    \E i, j \in AttemptIds :
        /\ InProgress(i) /\ attempts[i].answers = <<>>
        /\ InProgress(j) /\ attempts[j].quiz_id = "z1"
        /\ DOMAIN attempts[j].answers = {"q1", "q3"}

-----------------------------------------------------------------------------
(* C30 *)

\* the attempts of a student on a quiz
C30_Own(quiz_id, student_id) ==
    {i \in AttemptIds :
        attempts[i].quiz_id = quiz_id /\ attempts[i].student_id = student_id}

\* C30: start_attempt returns an attempt whenever the quiz is stored and the
\* student has fewer than max_attempts attempts on that quiz, however many
\* attempts other students have on it and the student has on other quizzes
C30_PerPairLimit ==
    \A quiz_id \in StoredQuizIds, student_id \in Students :
        Cardinality(C30_Own(quiz_id, student_id)) < QuizOf(quiz_id).max_attempts =>
            LET out == StartOutcome(attempts, quiz_id, student_id, clock)
            IN  /\ ~IsError(out.value)
                /\ out.value.quiz_id = quiz_id
                /\ out.value.student_id = student_id

\* one student is at the limit of quiz z2 and has an attempt on z1, while
\* the other student has no attempt
C30_Witness ==
    \E student_id, other \in Students :
        /\ student_id # other
        /\ Cardinality(C30_Own("z2", student_id)) = QuizOf("z2").max_attempts
        /\ C30_Own("z1", student_id) # {}
        /\ C30_Own("z1", other) = {} /\ C30_Own("z2", other) = {}

=============================================================================
